---- MODULE Spec2Model ----
(***************************************************************************)
(* Task orchestration engine of agentic-direct: the JSON-RPC router with   *)
(* its in-memory task map (A2ARouter), the per-task event bus, and the     *)
(* step executor (AgentExecutor.execute) with the mock tool registry       *)
(* (MCPServer.callTool).                                                   *)
(*                                                                         *)
(* Node.js runs every handler and every continuation of an async function  *)
(* to its next await on an external promise without interleaving, so one   *)
(* action is one such run.  The executor awaits the planner (OpenAI) and   *)
(* each MCPServer.callTool; requests may be served between those awaits.   *)
(* Timestamps and random message ids are not modelled.                     *)
(***************************************************************************)
EXTENDS Integers, Sequences, FiniteSets, TLC

(* ------------------------------ bounds -------------------------------- *)
\* a created task costs two units of work, a planned step one
MaxWork == 5

(* ----------------------------- constants ------------------------------ *)
SENTINEL == "__PREVIOUS_RESULT_ID__"
NoMessage == "undefined"
Undefined == [undefined |-> "undefined"]
Null == [null |-> "null"]

(* values of status.message / error texts *)
ErrNoParts == "Cannot read properties of undefined (reading 'filter')"
ErrNoResponse == "No response from AI"
ErrJSON == "Unexpected token in JSON"
ErrOracle == "Connection error."
ErrNoStep == "Cannot read properties of undefined (reading 'toolName')"

(* ------------------------- the tool registry --------------------------- *)
(* toolHandlers holds one handler per tool of the schema; the names below  *)
(* cover the account, order and generic branches of generateMockResponse. *)
RegisteredTools == {"create_account", "create_order", "create_line"}
UnregisteredTool == "drop_tables"

AccountTools == {"create_account"}
OrderTools == {"create_order"}
ProductTools == {"create_product"}
CreativeTools == {"create_creative"}

(* a || b on strings: the empty string is falsy *)
Or(params, key, default) ==
  IF key \in DOMAIN params /\ params[key] # "" THEN params[key] ELSE default

uuidv4(taskId, n) == "uuid-" \o taskId \o "-" \o ToString(n)

generateMockResponse(toolName, params, id) ==
  IF toolName \in AccountTools THEN
    [id |-> id, name |-> Or(params, "name", "Mock Account"),
     type |-> Or(params, "type", "advertiser"), status |-> "active"]
  ELSE IF toolName \in OrderTools THEN
    [id |-> id, accountId |-> Or(params, "accountId", id \o "-acc"),
     name |-> Or(params, "name", "Mock Order"),
     budget |-> Or(params, "budget", "10000"), status |-> "pending"]
  ELSE IF toolName \in ProductTools THEN
    [id |-> id, name |-> Or(params, "name", "Mock Product"),
     type |-> "display", status |-> "available"]
  ELSE IF toolName \in CreativeTools THEN
    [id |-> id, name |-> Or(params, "name", "Mock Creative"),
     adFormat |-> Or(params, "adFormat", "banner"), status |-> "pending_review"]
  ELSE
    \* { id, ...params, status: 'success' }: later keys override earlier ones
    [status |-> "success"] @@ params @@ [id |-> id]

(* MCPServer.callTool followed by the JSON.parse of executeTool: a fault   *)
(* when no handler is registered, else the handler's result object.        *)
callTool(toolName, args, id) ==
  IF toolName \notin RegisteredTools
    THEN [ok |-> FALSE, error |-> "Tool execution failed: Tool not found: " \o toolName,
          result |-> Null]
    ELSE [ok |-> TRUE, error |-> "", result |-> generateMockResponse(toolName, args, id)]

(* ------------------------------ messages ------------------------------ *)
NoData == [kind |-> "none", value |-> << >>]

createAgentMessage(text, data) ==
  [role |-> "agent", parts |-> "array", text |-> text, data |-> data]

(* what clients put into params.message *)
UserMessages ==
  { [role |-> "user", parts |-> "array", text |-> "Create an account for Nike", data |-> NoData],
    [role |-> "user", parts |-> "missing", text |-> "", data |-> NoData] }

(* ------------------------------ event bus ----------------------------- *)
\* mutation of publish: the event is put in front of the history
publish_Prepend(task, event) == [task EXCEPT !.history = << event >> \o @]

\* mutation of publish: the event replaces the last entry of the history
publish_Overwrite(task, event) ==
  [task EXCEPT !.history = SubSeq(@, 1, Len(@) - 1) \o << event >>]

publish(task, event) == [task EXCEPT !.history = Append(@, event)]

finished(task) == [task EXCEPT !.status = [state |-> "completed", message |-> NoMessage]]

\* mutation of executeCatch: the status is failed without a message
executeCatch_NoReason(task, message) ==
  [task EXCEPT !.status = [state |-> "failed", message |-> NoMessage]]

executeCatch(task, message) == [task EXCEPT !.status = [state |-> "failed", message |-> message]]

\* mutation of cancelStatus: the Task is rebuilt with an empty history
cancelStatus_DropHistory(task) ==
  [task EXCEPT !.status = [state |-> "canceled", message |-> NoMessage],
               !.history = << >>]

cancelStatus(task) == [task EXCEPT !.status = [state |-> "canceled", message |-> NoMessage]]

\* mutation of publishStep: no intermediate message is published
publishStep_Never(task, steps, stepMessage) == task

\* the intermediate message of a step, published only for multi-step plans
publishStep(task, steps, stepMessage) ==
  IF Len(steps) > 1 THEN publish(task, stepMessage) ELSE task

(* ------------------------------- plans -------------------------------- *)
PlainParams == [name |-> "Nike"]
RefParams == [accountId |-> SENTINEL, name |-> "Nike"]
EmptyIdParams == [id |-> ""]

StepMenu ==
  { [toolName |-> "create_account", toolParams |-> PlainParams],
    [toolName |-> "create_order", toolParams |-> RefParams],
    [toolName |-> "create_line", toolParams |-> EmptyIdParams],
    [toolName |-> UnregisteredTool, toolParams |-> PlainParams] }

SeqsUpTo(S, n) == UNION { [1..k -> S] : k \in 0..n }

(* the JSON object the planner returns: {steps: [...]} or {toolName, toolParams} *)
Plans(n) ==
  { [hasSteps |-> TRUE, steps |-> s, single |-> Undefined] : s \in SeqsUpTo(StepMenu, n) }
  \cup { [hasSteps |-> FALSE, steps |-> << >>, single |-> st] : st \in StepMenu }

PlannerFaults == {ErrOracle, ErrNoResponse, ErrJSON}

\* mutation of normalize: a plan without steps becomes the empty list
normalize_StepsOnly(planResponse) == planResponse.steps

(* planResponse.steps || [{toolName, toolParams}] *)
normalize(planResponse) ==
  IF planResponse.hasSteps THEN planResponse.steps ELSE << planResponse.single >>

(* { ...step.toolParams } with every sentinel replaced by previousResult.id, *)
(* only when previousResult && previousResult.id                          *)
substitute(toolParams, previousResult) ==
  IF "id" \in DOMAIN previousResult /\ previousResult["id"] # ""
    THEN [key \in DOMAIN toolParams |->
            IF toolParams[key] = SENTINEL THEN previousResult["id"] ELSE toolParams[key]]
    ELSE toolParams

RECURSIVE stepList(_, _)
stepList(steps, k) ==
  IF k > Len(steps) THEN ""
  ELSE "\n" \o ToString(k) \o ". " \o steps[k].toolName \o stepList(steps, k + 1)

summary(steps) ==
  IF Len(steps) > 1
    THEN "Successfully completed " \o ToString(Len(steps)) \o " steps:" \o stepList(steps, 1)
    ELSE "Successfully executed " \o steps[1].toolName

\* mutation of finalData: the list of results even for a single step
finalData_AlwaysList(steps, results) == [kind |-> "results", value |-> results]

finalData(steps, results) ==
  IF Len(steps) = 1
    THEN [kind |-> "result", value |-> << results[1].result >>]
    ELSE [kind |-> "results", value |-> results]

(* ------------------------------- state -------------------------------- *)
VARIABLES
  tasks,      \* A2ARouter.tasks: task id -> Task
  exec,       \* task id -> the state of its executor.execute(...) call
  calls,      \* task id -> the calls of mcpServer.callTool made so far
  response,   \* the HTTP response written by the last step, if any
  requestId,  \* the id member of the request that response answers
  responseId, \* the id member of that response
  remote,     \* the Tasks a browser client talks about, as the server holds them
  client,     \* the state of a browser client: its task map and its poll loops
  sdk,        \* the SDK variant of the executor: activeTasks and the event buses
  peer        \* the A2ARouter instance of the other role, when both are mounted

vars == <<tasks, exec, calls, response, requestId, responseId, remote, client, sdk,
          peer>>

\* no browser client and no SDK executor take part
NoClient == [kind |-> "none"]
NoSDK == [kind |-> "none"]

\* one router only
NoPeer == [role |-> "none", tasks |-> << >>, exec |-> << >>, calls |-> << >>]

\* JSON values of the id member, written as JSON text; NoId: no id member
NoId == "undefined"
NullId == "null"
FalsyIds == {NoId, NullId, "0", "\"\""}
RequestIds == {NoId, "0", "\"\"", "1"}

\* request.id ?? null
nullish(id) == IF id \in {NoId, NullId} THEN NullId ELSE id

\* request.id || null
orNull(id) == IF id \in FalsyIds THEN NullId ELSE id

\* op is the handler that produced the response, arg the taskId it was given
NoResponse == [op |-> "none", arg |-> "", kind |-> "none", code |-> 0, task |-> Undefined]
ResultResponse(op, arg, task) ==
  [op |-> op, arg |-> arg, kind |-> "result", code |-> 0, task |-> task]
createRPCError(op, arg, code) ==
  [op |-> op, arg |-> arg, kind |-> "error", code |-> code, task |-> Undefined]
\* a thrown TypeError serialises to an error object without a code
ThrownError(op) == [op |-> op, arg |-> "", kind |-> "error", code |-> 0, task |-> Undefined]

TaskIdOf(n) == "task-" \o ToString(n)
TaskIds == { TaskIdOf(n) : n \in 1..(MaxWork \div 2) }
UnknownTaskId == "task-unknown"

Init ==
  /\ tasks = << >>
  /\ exec = << >>
  /\ calls = << >>
  /\ response = NoResponse
  /\ requestId = NoId
  /\ responseId = NoId
  /\ remote = << >>
  /\ client = NoClient
  /\ sdk = NoSDK
  /\ peer = NoPeer

PlannedStepsOf(e) == LET RECURSIVE sum(_)
                         sum(S) == IF S = {} THEN 0
                                   ELSE LET t == CHOOSE x \in S : TRUE
                                        IN Len(e[t].steps) + sum(S \ {t})
                     IN sum(DOMAIN e)

PlannedSteps == PlannedStepsOf(exec)

\* the Tasks created so far, by either router; uuidv4 never repeats an id
Issued == Cardinality(DOMAIN tasks) + Cardinality(DOMAIN peer.tasks)

Work == 2 * Issued + PlannedSteps + PlannedStepsOf(peer.exec)

(* ---------------------------- the executor ---------------------------- *)
ExecDone(e) == [e EXCEPT !.pc = "done"]

\* the catch block of execute: publish the error message, then finished()
catchBlock(task, errorMessage) ==
  finished(publish(task, createAgentMessage("Error: " \o errorMessage, NoData)))

\* mutation of afterLoop: the status is flipped, the final message is not
\* appended with it
afterLoop_FinishedOnly(task, e) == finished(task)

\* after the loop: the summary, the final message, finished(); an empty
\* step list faults on steps[0].toolName and lands in the catch block
afterLoop(task, e) ==
  IF Len(e.steps) = 0
    THEN catchBlock(task, ErrNoStep)
    ELSE finished(publish(task,
           createAgentMessage(summary(e.steps), finalData(e.steps, e.results))))

\* loop body up to the await of executeTool for step k
StartStep(t, e, k) ==
  LET params == substitute(e.steps[k].toolParams, e.previousResult)
  IN /\ exec' = [exec EXCEPT ![t] = [e EXCEPT !.pc = "tool", !.i = k, !.params = params]]
     /\ calls' = [calls EXCEPT ![t] = Append(@, [toolName |-> e.steps[k].toolName,
                                                  params |-> params])]

PlannerFails(t, error) ==
  /\ response = NoResponse
  /\ UNCHANGED <<requestId, responseId>>
  /\ t \in DOMAIN exec
  /\ exec[t].pc = "planning"
  /\ tasks' = [tasks EXCEPT ![t] = catchBlock(@, error)]
  /\ exec' = [exec EXCEPT ![t] = ExecDone(@)]
  /\ response' = NoResponse
  /\ UNCHANGED calls

PlannerReturns(t, planResponse) ==
  /\ response = NoResponse
  /\ UNCHANGED <<requestId, responseId>>
  /\ t \in DOMAIN exec
  /\ exec[t].pc = "planning"
  /\ Work + Len(normalize(planResponse)) <= MaxWork
  /\ LET e == [exec[t] EXCEPT !.steps = normalize(planResponse)]
     IN IF Len(e.steps) = 0
          THEN /\ tasks' = [tasks EXCEPT ![t] = afterLoop(@, e)]
               /\ exec' = [exec EXCEPT ![t] = ExecDone(e)]
               /\ UNCHANGED calls
          ELSE /\ StartStep(t, e, 1)
               /\ UNCHANGED tasks
  /\ response' = NoResponse

\* mutation of ToolReturns: a faulting step is skipped when another follows
ToolReturns_SkipFault(t) ==
  /\ response = NoResponse
  /\ UNCHANGED <<requestId, responseId>>
  /\ t \in DOMAIN exec
  /\ exec[t].pc = "tool"
  /\ LET e == exec[t]
         step == e.steps[e.i]
         out == callTool(step.toolName, e.params, uuidv4(t, e.i))
     IN IF ~out.ok
          THEN IF e.i < Len(e.steps)
                 THEN /\ StartStep(t, e, e.i + 1)
                      /\ UNCHANGED tasks
                 ELSE /\ tasks' = [tasks EXCEPT ![t] = catchBlock(@, out.error)]
                      /\ exec' = [exec EXCEPT ![t] = ExecDone(@)]
                      /\ UNCHANGED calls
          ELSE LET e2 == [e EXCEPT !.results = Append(@, [tool |-> step.toolName,
                                                           result |-> out.result]),
                                   !.previousResult = out.result]
                   stepMessage == createAgentMessage(
                       "Step " \o ToString(e.i) \o "/" \o ToString(Len(e.steps))
                         \o ": Successfully executed " \o step.toolName,
                       [kind |-> "result", value |-> << out.result >>])
                   published == publishStep(tasks[t], e.steps, stepMessage)
               IN IF e.i < Len(e.steps)
                    THEN /\ tasks' = [tasks EXCEPT ![t] = published]
                         /\ StartStep(t, e2, e.i + 1)
                    ELSE /\ tasks' = [tasks EXCEPT ![t] = afterLoop(published, e2)]
                         /\ exec' = [exec EXCEPT ![t] = ExecDone(e2)]
                         /\ UNCHANGED calls
  /\ response' = NoResponse

ToolReturns(t) ==
  /\ response = NoResponse
  /\ UNCHANGED <<requestId, responseId>>
  /\ t \in DOMAIN exec
  /\ exec[t].pc = "tool"
  /\ LET e == exec[t]
         step == e.steps[e.i]
         out == callTool(step.toolName, e.params, uuidv4(t, e.i))
     IN IF ~out.ok
          THEN /\ tasks' = [tasks EXCEPT ![t] = catchBlock(@, out.error)]
               /\ exec' = [exec EXCEPT ![t] = ExecDone(@)]
               /\ UNCHANGED calls
          ELSE LET e2 == [e EXCEPT !.results = Append(@, [tool |-> step.toolName,
                                                           result |-> out.result]),
                                   !.previousResult = out.result]
                   stepMessage == createAgentMessage(
                       "Step " \o ToString(e.i) \o "/" \o ToString(Len(e.steps))
                         \o ": Successfully executed " \o step.toolName,
                       [kind |-> "result", value |-> << out.result >>])
                   published == publishStep(tasks[t], e.steps, stepMessage)
               IN IF e.i < Len(e.steps)
                    THEN /\ tasks' = [tasks EXCEPT ![t] = published]
                         /\ StartStep(t, e2, e.i + 1)
                    ELSE /\ tasks' = [tasks EXCEPT ![t] = afterLoop(published, e2)]
                         /\ exec' = [exec EXCEPT ![t] = ExecDone(e2)]
                         /\ UNCHANGED calls
  /\ response' = NoResponse

\* mutation of handleSendMessage: the contextId of the caller is ignored
handleSendMessage_OwnContext(params) ==
  IF params = Undefined THEN
    /\ response' = ThrownError("sendMessage")
    /\ UNCHANGED <<tasks, exec, calls>>
  ELSE IF "message" \notin DOMAIN params THEN
    /\ response' = createRPCError("sendMessage", "", -32602)
    /\ UNCHANGED <<tasks, exec, calls>>
  ELSE
    LET taskId == TaskIdOf(Issued + 1)
        message == params.message
        task == [id |-> taskId,
                 contextId |-> "uuid-ctx-" \o taskId,
                 status |-> [state |-> "working", message |-> NoMessage],
                 history |-> << message >>]
        rejected == message.parts # "array"
        e == [pc |-> IF rejected THEN "rejected" ELSE "planning",
              steps |-> << >>, i |-> 0, params |-> Undefined,
              previousResult |-> Null, results |-> << >>]
        stored == IF rejected THEN executeCatch(task, ErrNoParts) ELSE task
    IN /\ Work + 2 <= MaxWork
       /\ tasks' = tasks @@ (taskId :> stored)
       /\ exec' = exec @@ (taskId :> e)
       /\ calls' = calls @@ (taskId :> << >>)
       /\ response' = ResultResponse("sendMessage", "", stored)

(* ----------------------------- the router ----------------------------- *)
\* handleSendMessage with the synchronous start of executor.execute: a
\* message without a parts array makes extractTextFromMessage throw before
\* the try block, execute() rejects, and the .catch handler has run by the
\* time the response is written
handleSendMessage(params) ==
  IF params = Undefined THEN
    /\ response' = ThrownError("sendMessage")
    /\ UNCHANGED <<tasks, exec, calls>>
  ELSE IF "message" \notin DOMAIN params THEN
    /\ response' = createRPCError("sendMessage", "", -32602)
    /\ UNCHANGED <<tasks, exec, calls>>
  ELSE
    LET taskId == TaskIdOf(Issued + 1)
        message == params.message
        task == [id |-> taskId,
                 contextId |-> IF "contextId" \in DOMAIN params /\ params.contextId # ""
                                 THEN params.contextId ELSE "uuid-ctx-" \o taskId,
                 status |-> [state |-> "working", message |-> NoMessage],
                 history |-> << message >>]
        rejected == message.parts # "array"
        e == [pc |-> IF rejected THEN "rejected" ELSE "planning",
              steps |-> << >>, i |-> 0, params |-> Undefined,
              previousResult |-> Null, results |-> << >>]
        stored == IF rejected THEN executeCatch(task, ErrNoParts) ELSE task
    IN /\ Work + 2 <= MaxWork
       /\ tasks' = tasks @@ (taskId :> stored)
       /\ exec' = exec @@ (taskId :> e)
       /\ calls' = calls @@ (taskId :> << >>)
       /\ response' = ResultResponse("sendMessage", "", stored)

\* mutation of handleGetTaskRPC: the lookup marks the Task completed
handleGetTaskRPC_Touch(params) ==
  /\ UNCHANGED <<exec, calls>>
  /\ IF params = Undefined THEN response' = ThrownError("getTask") /\ UNCHANGED tasks
     ELSE IF "taskId" \notin DOMAIN params \/ params.taskId = "" THEN
       response' = createRPCError("getTask", "", -32602) /\ UNCHANGED tasks
     ELSE IF params.taskId \notin DOMAIN tasks THEN
       response' = createRPCError("getTask", params.taskId, -32000) /\ UNCHANGED tasks
     ELSE /\ tasks' = [tasks EXCEPT ![params.taskId] = finished(@)]
          /\ response' = ResultResponse("getTask", params.taskId, finished(tasks[params.taskId]))

\* mutation of handleGetTaskRPC: the lookup result is returned unchecked
handleGetTaskRPC_Unchecked(params) ==
  /\ UNCHANGED <<tasks, exec, calls>>
  /\ IF params = Undefined THEN response' = ThrownError("getTask")
     ELSE IF "taskId" \notin DOMAIN params \/ params.taskId = "" THEN
       response' = createRPCError("getTask", "", -32602)
     ELSE IF params.taskId \notin DOMAIN tasks THEN
       response' = ResultResponse("getTask", params.taskId, Undefined)
     ELSE response' = ResultResponse("getTask", params.taskId, tasks[params.taskId])

handleGetTaskRPC(params) ==
  /\ UNCHANGED <<tasks, exec, calls>>
  /\ IF params = Undefined THEN response' = ThrownError("getTask")
     ELSE IF "taskId" \notin DOMAIN params \/ params.taskId = "" THEN
       response' = createRPCError("getTask", "", -32602)
     ELSE IF params.taskId \notin DOMAIN tasks THEN
       response' = createRPCError("getTask", params.taskId, -32000)
     ELSE response' = ResultResponse("getTask", params.taskId, tasks[params.taskId])

\* mutation of handleCancelTask: every stored Task is marked canceled
handleCancelTask_All(params) ==
  /\ UNCHANGED <<exec, calls>>
  /\ IF params = Undefined THEN
       /\ response' = ThrownError("cancelTask")
       /\ UNCHANGED tasks
     ELSE IF "taskId" \notin DOMAIN params \/ params.taskId = "" THEN
       /\ response' = createRPCError("cancelTask", "", -32602)
       /\ UNCHANGED tasks
     ELSE IF params.taskId \notin DOMAIN tasks THEN
       /\ response' = createRPCError("cancelTask", params.taskId, -32000)
       /\ UNCHANGED tasks
     ELSE
       /\ tasks' = [t \in DOMAIN tasks |-> cancelStatus(tasks[t])]
       /\ response' = ResultResponse("cancelTask", params.taskId,
                                     cancelStatus(tasks[params.taskId]))

handleCancelTask(params) ==
  /\ UNCHANGED <<exec, calls>>
  /\ IF params = Undefined THEN
       /\ response' = ThrownError("cancelTask")
       /\ UNCHANGED tasks
     ELSE IF "taskId" \notin DOMAIN params \/ params.taskId = "" THEN
       /\ response' = createRPCError("cancelTask", "", -32602)
       /\ UNCHANGED tasks
     ELSE IF params.taskId \notin DOMAIN tasks THEN
       /\ response' = createRPCError("cancelTask", params.taskId, -32000)
       /\ UNCHANGED tasks
     ELSE
       /\ tasks' = [tasks EXCEPT ![params.taskId] = cancelStatus(@)]
       /\ response' = ResultResponse("cancelTask", params.taskId,
                                     cancelStatus(tasks[params.taskId]))

\* res.status(404).json({ error }) and the like: code is the HTTP status
RESTError(op, arg, status) ==
  [op |-> op, arg |-> arg, kind |-> "error", code |-> status, task |-> Undefined]

\* mutation of handleRESTCancelTask: a Task that is already terminal is
\* returned as it is
handleRESTCancelTask_KeepTerminal(taskId) ==
  /\ UNCHANGED <<exec, calls>>
  /\ IF taskId \notin DOMAIN tasks THEN
       /\ response' = RESTError("restCancelTask", taskId, 404)
       /\ UNCHANGED tasks
     ELSE IF tasks[taskId].status.state # "working" THEN
       /\ response' = ResultResponse("restCancelTask", taskId, tasks[taskId])
       /\ UNCHANGED tasks
     ELSE
       /\ tasks' = [tasks EXCEPT ![taskId] = cancelStatus(@)]
       /\ response' = ResultResponse("restCancelTask", taskId,
                                     cancelStatus(tasks[taskId]))

\* POST /rest/cancelTask/:taskId
handleRESTCancelTask(taskId) ==
  /\ UNCHANGED <<exec, calls>>
  /\ IF taskId \notin DOMAIN tasks THEN
       /\ response' = RESTError("restCancelTask", taskId, 404)
       /\ UNCHANGED tasks
     ELSE
       /\ tasks' = [tasks EXCEPT ![taskId] = cancelStatus(@)]
       /\ response' = ResultResponse("restCancelTask", taskId,
                                     cancelStatus(tasks[taskId]))

SendMethods == {"sendMessage", "message/send"}
GetMethods == {"getTask", "task/get", "tasks/get"}
CancelMethods == {"cancelTask", "task/cancel"}

\* mutation of dispatch: the case label 'tasks/get' is missing
dispatch_NoPluralGet(request) ==
  IF request.method \in SendMethods THEN handleSendMessage(request.params)
  ELSE IF request.method \in GetMethods \ {"tasks/get"}
    THEN handleGetTaskRPC(request.params)
  ELSE IF request.method \in CancelMethods THEN handleCancelTask(request.params)
  ELSE
    /\ response' = createRPCError("handleJSONRPC", "", -32601)
    /\ UNCHANGED <<tasks, exec, calls>>

\* the switch of handleJSONRPC
dispatch(request) ==
  IF request.method \in SendMethods THEN handleSendMessage(request.params)
  ELSE IF request.method \in GetMethods THEN handleGetTaskRPC(request.params)
  ELSE IF request.method \in CancelMethods THEN handleCancelTask(request.params)
  ELSE
    /\ response' = createRPCError("handleJSONRPC", "", -32601)
    /\ UNCHANGED <<tasks, exec, calls>>

\* mutation of handleJSONRPC: the version is not validated before the switch
handleJSONRPC_NoVersionCheck(request) ==
  /\ requestId' = request.id
  /\ responseId' = nullish(request.id)
  /\ dispatch(request)

handleJSONRPC(request) ==
  /\ requestId' = request.id
  /\ IF request.jsonrpc # "2.0" THEN
       /\ response' = createRPCError("handleJSONRPC", "", -32600)
       /\ responseId' = orNull(request.id)
       /\ UNCHANGED <<tasks, exec, calls>>
     ELSE
       /\ responseId' = nullish(request.id)
       /\ dispatch(request)

(* the requests clients send *)
SendParams ==
  { [message |-> m] : m \in UserMessages }
  \cup { [message |-> m, contextId |-> "ctx-A"] : m \in UserMessages }
  \cup { [contextId |-> "ctx-A"] }

TaskParams ==
  { [taskId |-> id] : id \in TaskIds \cup {UnknownTaskId} } \cup { [other |-> "x"] }

\* requests that fail the version check, whatever their method and params
InvalidEnvelopes ==
  [jsonrpc : {"1.0"}, method : {"sendMessage", "cancelTask"},
   params : {[message |-> m] : m \in UserMessages} \cup {[taskId |-> TaskIdOf(1)]},
   id : RequestIds]

Requests ==
  [jsonrpc : {"2.0"}, method : SendMethods, params : SendParams \cup {Undefined},
   id : RequestIds]
  \cup [jsonrpc : {"2.0"}, method : GetMethods \cup CancelMethods,
        params : TaskParams \cup {Undefined}, id : RequestIds]
  \cup [jsonrpc : {"2.0"}, method : {"tasks/list"}, params : {Undefined}, id : RequestIds]
  \cup InvalidEnvelopes

\* task ids that were never issued all behave like UnknownTaskId
JSONRPC ==
  /\ response = NoResponse
  /\ \E request \in Requests :
       /\ (request.params # Undefined /\ "taskId" \in DOMAIN request.params)
            => request.params.taskId \in DOMAIN tasks \cup {UnknownTaskId}
       /\ handleJSONRPC(request)
  /\ UNCHANGED <<remote, client, sdk, peer>>

\* a request to the REST cancel endpoint; it carries no JSON-RPC id
RESTCancel ==
  /\ response = NoResponse
  /\ \E taskId \in DOMAIN tasks \cup {UnknownTaskId} : handleRESTCancelTask(taskId)
  /\ requestId' = NoId
  /\ responseId' = NoId
  /\ UNCHANGED <<remote, client, sdk, peer>>

\* res.json(...) has handed the response to the client
ResponseSent ==
  /\ response # NoResponse
  /\ response' = NoResponse
  /\ requestId' = NoId
  /\ responseId' = NoId
  /\ UNCHANGED <<tasks, exec, calls, remote, client, sdk, peer>>

PlannerFault ==
  /\ \E t \in TaskIds, error \in PlannerFaults : PlannerFails(t, error)
  /\ UNCHANGED <<remote, client, sdk, peer>>

PlannerPlan ==
  /\ \E t \in TaskIds, p \in Plans(MaxWork - Work) : PlannerReturns(t, p)
  /\ UNCHANGED <<remote, client, sdk, peer>>

ToolReturn ==
  /\ \E t \in TaskIds : ToolReturns(t)
  /\ UNCHANGED <<remote, client, sdk, peer>>

Next == JSONRPC \/ RESTCancel \/ ResponseSent \/ PlannerFault \/ PlannerPlan \/ ToolReturn

Spec == Init /\ [][Next]_vars

(* ------------------------------ claims -------------------------------- *)
\* the terminal values of status.state
TerminalStates == {"completed", "failed", "canceled"}

Terminal(t) == tasks[t].status.state \in TerminalStates

Working(t) == tasks[t].status.state = "working"

InFlight(t) == exec[t].pc \in {"planning", "tool"}

\* the awaited callTool of the current step is about to fault
StepFaults(t) ==
  /\ exec[t].pc = "tool"
  /\ ~callTool(exec[t].steps[exec[t].i].toolName, exec[t].params, uuidv4(t, exec[t].i)).ok

HasSentinel(params) == \E key \in DOMAIN params : params[key] = SENTINEL

\* C1: once a task is completed, failed or canceled, no step changes its
\* status or its history.
C1_TerminalImmutable ==
  [][\A t \in DOMAIN tasks : Terminal(t) => tasks'[t] = tasks[t]]_vars

\* C2: a task canceled while its executor is suspended on the planner or on
\* a tool call stays canceled, and the executor's next publish/finished
\* append nothing to its history.
C2_CancelRace ==
  [][\A t \in DOMAIN tasks :
       (tasks[t].status.state = "canceled" /\ InFlight(t)) =>
         /\ tasks'[t].status.state = "canceled"
         /\ tasks'[t].history = tasks[t].history]_vars

\* C3: cancel-task on a task that is already terminal answers with that
\* task, unchanged: no error, and the state does not become canceled.
C3_CancelTerminalUnchanged ==
  [][\A t \in DOMAIN tasks :
       (Terminal(t) /\ response'.op = "cancelTask" /\ response'.arg = t) =>
         /\ response'.kind = "result"
         /\ response'.task = tasks[t]
         /\ tasks'[t] = tasks[t]]_vars

\* C4: a task starts in working (or has already failed inside send-message
\* when its execution rejected at once), and the only changes of
\* status.state are working -> completed, failed or canceled.
C4_Lifecycle ==
  [][\A t \in DOMAIN tasks' :
       IF t \in DOMAIN tasks
         THEN tasks'[t].status.state # tasks[t].status.state =>
                /\ tasks[t].status.state = "working"
                /\ tasks'[t].status.state \in TerminalStates
         ELSE tasks'[t].status.state = "working" \/ exec'[t].pc = "rejected"]_vars

\* C5: when the tool call of a step of a working task faults, no further
\* tool is called, one agent error message is appended, and the task
\* becomes failed with the fault's description as its reason.
C5_ToolFaultFails ==
  [][\A t \in DOMAIN tasks :
       (Working(t) /\ StepFaults(t) /\ ToolReturns(t)) =>
         /\ calls'[t] = calls[t]
         /\ Len(tasks'[t].history) = Len(tasks[t].history) + 1
         /\ tasks'[t].history[Len(tasks'[t].history)].role = "agent"
         /\ tasks'[t].status.state = "failed"
         /\ tasks'[t].status.message =
              "Tool execution failed: Tool not found: " \o exec[t].steps[exec[t].i].toolName]_vars

\* C6: Scenario E: when step 2 of a plan of at least two steps faults, the
\* task ends failed, its history is the user message, the step-1 progress
\* message and one failure message, and no third tool call is made.
C6_ScenarioE ==
  [][\A t \in DOMAIN tasks :
       (Working(t) /\ StepFaults(t) /\ exec[t].i = 2 /\ ToolReturns(t)) =>
         /\ tasks'[t].status.state = "failed"
         /\ Len(tasks'[t].history) = 3
         /\ tasks'[t].history[1].role = "user"
         /\ tasks'[t].history[2].role = "agent"
         /\ tasks'[t].history[2].data = [kind |-> "result",
                                          value |-> << exec[t].results[1].result >>]
         /\ tasks'[t].history[3].role = "agent"
         /\ tasks'[t].history[3].data = NoData
         /\ Len(calls'[t]) = 2]_vars

\* C7: a plan that is malformed JSON, or that names an unregistered tool,
\* makes the working task failed with a reason, and no RPC error is sent.
C7_PlanningFailure ==
  [][\A t \in DOMAIN tasks :
       (Working(t) /\ (PlannerFails(t, ErrJSON) \/ (StepFaults(t) /\ ToolReturns(t)))) =>
         /\ tasks'[t].status.state = "failed"
         /\ tasks'[t].status.message # NoMessage
         /\ response'.kind # "error"]_vars

\* C8: when step 1 of the plan carries the sentinel, the tool of step 1 is
\* never called with the sentinel, and the finished task is failed (or was
\* canceled).
C8_SentinelInStepOne ==
  \A t \in DOMAIN exec :
    (Len(exec[t].steps) >= 1 /\ HasSentinel(exec[t].steps[1].toolParams)) =>
      /\ Len(calls[t]) >= 1 => ~HasSentinel(calls[t][1].params)
      /\ exec[t].pc = "done" => tasks[t].status.state \in {"failed", "canceled"}

\* C9: the tool of every step k > 1 is called with each sentinel replaced by
\* the id of step k-1's result and every other parameter unchanged, and
\* never with a sentinel left in place.
C9_PlaceholderResolution ==
  \A t \in DOMAIN calls :
    \A k \in 2..Len(calls[t]) :
      LET toolParams == exec[t].steps[k].toolParams
          previous == exec[t].results[k - 1].result
      IN /\ calls[t][k].params =
              [key \in DOMAIN toolParams |->
                 IF toolParams[key] = SENTINEL THEN previous["id"] ELSE toolParams[key]]
         /\ ~HasSentinel(calls[t][k].params)

\* C10: every result of send-message is a task in state working whose
\* history holds the user message only.
C10_SendReturnsWorking ==
  (response.op = "sendMessage" /\ response.kind = "result") =>
    /\ response.task.status.state = "working"
    /\ Len(response.task.history) = 1
    /\ response.task.history[1].role = "user"

IsPrefix(s, t) == Len(s) <= Len(t) /\ SubSeq(t, 1, Len(s)) = s

\* the awaited callTool of the last step of a working task is about to succeed
LastStepSucceeds(t) ==
  /\ Working(t)
  /\ exec[t].pc = "tool"
  /\ exec[t].i = Len(exec[t].steps)
  /\ ~StepFaults(t)

\* C11: Scenario A: when the tool of a one-step plan succeeds, the working
\* task becomes completed and its history is the user message followed by
\* one agent message whose data fragment is the tool's result; no
\* intermediate message is published.
C11_ScenarioA ==
  [][\A t \in DOMAIN tasks :
       (LastStepSucceeds(t) /\ Len(exec[t].steps) = 1 /\ ToolReturns(t)) =>
         /\ tasks'[t].status.state = "completed"
         /\ Len(tasks'[t].history) = 2
         /\ tasks'[t].history[1] = tasks[t].history[1]
         /\ tasks'[t].history[1].role = "user"
         /\ tasks'[t].history[2].role = "agent"
         /\ tasks'[t].history[2].data =
              [kind |-> "result",
               value |-> << generateMockResponse(calls[t][1].toolName, calls[t][1].params,
                                                 uuidv4(t, 1)) >>]]_vars

C11_Witness ==
  \E t \in DOMAIN tasks :
    /\ exec[t].pc = "done"
    /\ Len(exec[t].steps) = 1
    /\ Len(exec[t].results) = 1
    /\ tasks[t].status.state = "completed"
    /\ Len(tasks[t].history) = 2

\* C12: when all n > 1 steps of a plan succeed, the working task becomes
\* completed with n + 2 messages: the user message, one intermediate agent
\* message per step in plan order, and one final agent message whose data
\* fragment is the ordered list of the n results.
C12_MultiStepHistory ==
  [][\A t \in DOMAIN tasks :
       (LastStepSucceeds(t) /\ Len(exec[t].steps) > 1 /\ ToolReturns(t)) =>
         LET n == Len(exec[t].steps)
             h == tasks'[t].history
         IN /\ tasks'[t].status.state = "completed"
            /\ Len(h) = n + 2
            /\ h[1].role = "user"
            /\ \A k \in 1..n :
                 /\ h[k + 1].role = "agent"
                 /\ h[k + 1].text = "Step " \o ToString(k) \o "/" \o ToString(n)
                                      \o ": Successfully executed " \o exec[t].steps[k].toolName
                 /\ h[k + 1].data = [kind |-> "result",
                                     value |-> << exec'[t].results[k].result >>]
            /\ h[n + 2].role = "agent"
            /\ h[n + 2].data.kind = "results"
            /\ Len(h[n + 2].data.value) = n
            /\ \A k \in 1..n :
                 /\ h[n + 2].data.value[k].tool = exec[t].steps[k].toolName
                 /\ h[n + 2].data.value[k].result =
                      generateMockResponse(calls[t][k].toolName, calls[t][k].params,
                                           uuidv4(t, k))]_vars

C12_Witness ==
  \E t \in DOMAIN tasks :
    /\ exec[t].pc = "done"
    /\ Len(exec[t].steps) = 3
    /\ Len(exec[t].results) = 3
    /\ tasks[t].status.state = "completed"
    /\ Len(tasks[t].history) = 5

\* C13: the history of a task only grows: in every step the old history is
\* a prefix of the new one.
C13_HistoryAppendOnly ==
  [][\A t \in DOMAIN tasks : IsPrefix(tasks[t].history, tasks'[t].history)]_vars

C13_Witness ==
  \E t \in DOMAIN tasks :
    /\ Len(tasks[t].history) >= 3
    /\ tasks[t].status.state = "canceled"

\* C14: get-task and cancel-task for an id that is not in the task map
\* answer error -32000 and leave every task and executor as it was.
C14_TaskNotFound ==
  [][(/\ response'.op \in {"getTask", "cancelTask"}
      /\ response'.arg # ""
      /\ response'.arg \notin DOMAIN tasks) =>
       /\ response'.kind = "error"
       /\ response'.code = -32000
       /\ tasks' = tasks
       /\ exec' = exec]_vars

C14_Witness ==
  /\ response.op = "cancelTask"
  /\ response.arg = UnknownTaskId
  /\ response.code = -32000
  /\ DOMAIN tasks # {}

\* C15: every JSON-RPC response carries the id of its request, whatever the
\* id value (0 and the empty string included), and carries null only when
\* the request has no id.
C15_ResponseEchoesId ==
  response # NoResponse =>
    responseId = (IF requestId = NoId THEN NullId ELSE requestId)

\* C16: a request whose jsonrpc field is not "2.0" is answered with -32600
\* before any dispatch: whatever its method and params, no Task is created,
\* no Task is changed and the executor is not started.
C16_InvalidEnvelope ==
  [][\A request \in InvalidEnvelopes :
       (response' # NoResponse /\ handleJSONRPC(request)) =>
         /\ response'.kind = "error"
         /\ response'.code = -32600
         /\ tasks' = tasks
         /\ exec' = exec
         /\ calls' = calls]_vars

\* an invalid envelope was rejected while a Task it names was still working
C16_Witness ==
  /\ response.op = "handleJSONRPC"
  /\ response.code = -32600
  /\ TaskIdOf(1) \in DOMAIN tasks
  /\ Working(TaskIdOf(1))
  /\ InFlight(TaskIdOf(1))

ErrorCodes == {-32600, -32601, -32602, -32000, -32603}

MissingMessage(params) == params = Undefined \/ "message" \notin DOMAIN params

MissingTaskId(params) == params = Undefined \/ "taskId" \notin DOMAIN params

\* C17: every error response carries a code of ErrorCodes; an unknown method
\* yields -32601; a send-message without a message and a get-task or
\* cancel-task without a taskId (a request without params included) yield
\* -32602; in all these cases no Task is created.
C17_ErrorCodes ==
  [][\A request \in Requests :
       handleJSONRPC(request) =>
         /\ response'.kind = "error" =>
              /\ response'.code \in ErrorCodes
              /\ DOMAIN tasks' = DOMAIN tasks
         /\ (/\ request.jsonrpc = "2.0"
             /\ request.method \notin SendMethods \cup GetMethods \cup CancelMethods) =>
              /\ response'.kind = "error"
              /\ response'.code = -32601
         /\ (/\ request.jsonrpc = "2.0"
             /\ \/ request.method \in SendMethods /\ MissingMessage(request.params)
                \/ /\ request.method \in GetMethods \cup CancelMethods
                   /\ MissingTaskId(request.params)) =>
              /\ response'.kind = "error"
              /\ response'.code = -32602]_vars

(* ------------------------- the browser clients ------------------------- *)
\* client-html/app.js and client/src/app.js share handleTask and pollTask
\* ("app.js"); client/src/client.js polls with setInterval ("client.js")
ClientKinds == {"app.js", "client.js"}

MaxClientTasks == 2
MaxAgentMessages == 1
MaxFetches == 3
MaxInFlight == 2
maxAttempts == 30

ClientTaskIds == {TaskIdOf(n) : n \in 1..MaxClientTasks}

NoTask == "null"

\* a getTask call the server has not answered yet
Pending == [pending |-> TRUE]

\* a getTask call that threw or was answered with an error object, and one
\* that was answered with something that has no status
Rejected == [rejected |-> TRUE]
Invalid == [invalid |-> TRUE]
Unanswered == {Pending, Rejected, Invalid}

clientMessage ==
  [role |-> "user", parts |-> "array", text |-> "Create an account for Nike",
   data |-> NoData]

\* the Task handleSendMessage stores and returns
newTask(taskId) ==
  [id |-> taskId, contextId |-> "uuid-ctx-" \o taskId,
   status |-> [state |-> "working", message |-> NoMessage],
   history |-> << clientMessage >>]

InitClient(kind) ==
  [kind |-> kind,
   tasks |-> [t \in ClientTaskIds |-> Undefined],
   shownAgentMessages |-> [t \in ClientTaskIds |-> 0],
   attempts |-> [t \in ClientTaskIds |-> 0],
   timer |-> [t \in ClientTaskIds |-> FALSE],
   inflight |-> [t \in ClientTaskIds |-> << >>],
   emitted |-> [t \in ClientTaskIds |-> << >>],
   notices |-> [t \in ClientTaskIds |-> << >>],
   debugLog |-> [t \in ClientTaskIds |-> << >>],
   currentTask |-> NoTask,
   taskPollInterval |-> NoTask,
   fetches |-> 0]

\* task.history.filter(h => h.role === 'agent')
agentMessages(history) == SelectSeq(history, LAMBDA h : h.role = "agent")

\* Array.prototype.slice(n)
slice(s, n) == SubSeq(s, n + 1, Len(s))

texts(messages) == [i \in 1..Len(messages) |-> messages[i].text]

\* app.js: forEach(msg => { if (text) this.addAgentMessage(text, data) })
addAgentMessage(messages) == texts(SelectSeq(messages, LAMBDA m : m.text # ""))

\* client.js: forEach(msg => displayAgentMessage(msg))
displayAgentMessage(messages) == texts(messages)

\* existingTask?.history?.filter(h => h.role === 'agent').length || 0
existingAgentMessageCount(c, t) ==
  IF c.tasks[t] = Undefined THEN 0 ELSE Len(agentMessages(c.tasks[t].history))

\* app.js poll(), up to its await: the attempt test with its log line, then
\* the getTask call (fetches counts the calls made)
poll(c, t) ==
  IF c.attempts[t] >= maxAttempts
    THEN [c EXCEPT !.attempts[t] = @ + 1, !.timer[t] = FALSE,
                   !.debugLog[t] = Append(@, "polling timeout")]
    ELSE [c EXCEPT !.attempts[t] = @ + 1, !.timer[t] = FALSE,
                   !.inflight[t] = << Pending >>,
                   !.fetches = @ + 1]

\* app.js poll() after an await that threw (the catch block) or that gave
\* an invalid Task (the early return): a log line, no setTimeout
pollFailure(c, t, outcome) ==
  [c EXCEPT !.inflight[t] = << >>,
            !.debugLog[t] = Append(@, IF outcome = Invalid
                                        THEN "Invalid task structure from poll"
                                        ELSE "Failed to poll task")]

\* the catch block of the setInterval callback of client.js; an invalid
\* Task throws at task.status.state and lands there too
intervalFailure(c, t, k) ==
  [c EXCEPT !.inflight[t] = SubSeq(@, 1, k - 1) \o SubSeq(@, k + 1, Len(@)),
            !.taskPollInterval = NoTask]

\* app.js pollTask: the counters of the closure, then the first poll()
pollTask(c, t) ==
  poll([c EXCEPT !.shownAgentMessages[t] = existingAgentMessageCount(c, t),
                 !.attempts[t] = 0], t)

\* app.js handleTask
handleTask(c, task) ==
  LET t == task.id
      existing == existingAgentMessageCount(c, t)
      agents == agentMessages(task.history)
      newMessages == IF Len(agents) > existing THEN slice(agents, existing) ELSE << >>
      c1 == [c EXCEPT !.tasks[t] = task,
                      !.emitted[t] = @ \o addAgentMessage(newMessages)]
  IN IF task.status.state = "working" THEN pollTask(c1, t) ELSE c1

\* task.status.message || 'Unknown error'
failureReason(task) ==
  IF task.status.message = NoMessage THEN "Unknown error" ELSE task.status.message

\* the state branches at the end of poll() in client-html/app.js: a system
\* message for failed, nothing for completed or canceled (client/src/app.js
\* writes a debug-log line without the reason instead)
pollNotice(c, t, task) ==
  IF task.status.state = "failed"
    THEN [c EXCEPT !.notices[t] = Append(@, "Task failed: " \o failureReason(task))]
    ELSE c

\* the state branches at the end of the setInterval callback of client.js
intervalNotice(c, t, task) ==
  IF task.status.state = "failed"
    THEN [c EXCEPT !.notices[t] = Append(@, "Task failed: " \o failureReason(task))]
    ELSE c

\* mutation of pollResponse: shownAgentMessages is not advanced
pollResponse_KeepShown(c, t, task) ==
  LET agents == agentMessages(task.history)
      fresh == Len(agents) > c.shownAgentMessages[t]
      c1 == [c EXCEPT !.tasks[t] = task,
                      !.inflight[t] = << >>,
                      !.emitted[t] =
                         IF fresh
                           THEN @ \o addAgentMessage(slice(agents, c.shownAgentMessages[t]))
                           ELSE @]
  IN IF task.status.state = "working"
       THEN [c1 EXCEPT !.timer[t] = TRUE]
       ELSE c1

\* the part of poll() after the await
pollResponse(c, t, task) ==
  LET agents == agentMessages(task.history)
      fresh == Len(agents) > c.shownAgentMessages[t]
      c1 == [c EXCEPT !.tasks[t] = task,
                      !.inflight[t] = << >>,
                      !.emitted[t] =
                         IF fresh
                           THEN @ \o addAgentMessage(slice(agents, c.shownAgentMessages[t]))
                           ELSE @,
                      !.shownAgentMessages[t] = IF fresh THEN Len(agents) ELSE @]
  IN IF task.status.state = "working"
       THEN [c1 EXCEPT !.timer[t] = TRUE]
       ELSE pollNotice(c1, t, task)

\* client.js startTaskPolling: clearInterval, the counter, setInterval
startTaskPolling(c, t) ==
  [c EXCEPT !.taskPollInterval = t,
            !.shownAgentMessages[t] = existingAgentMessageCount(c, t)]

\* the part of the setInterval callback after the await
intervalResponse(c, t, k, task) ==
  LET agents == agentMessages(task.history)
      fresh == Len(agents) > c.shownAgentMessages[t]
      c1 == [c EXCEPT !.tasks[t] = task,
                      !.inflight[t] = SubSeq(@, 1, k - 1) \o SubSeq(@, k + 1, Len(@)),
                      !.emitted[t] =
                         IF fresh
                           THEN @ \o displayAgentMessage(slice(agents, c.shownAgentMessages[t]))
                           ELSE @,
                      !.shownAgentMessages[t] = IF fresh THEN Len(agents) ELSE @]
  IN IF task.status.state \in {"completed", "failed"}
       THEN [intervalNotice(c1, t, task) EXCEPT !.taskPollInterval = NoTask,
                                                 !.currentTask = NoTask]
       ELSE c1

serverVars == <<tasks, exec, calls, response, requestId, responseId, peer>>

\* app.js sendMessage: the server stores the new Task, the client runs
\* handleTask on the result; the poll loops of different Tasks share no
\* state, so this client sends one message
AppSendMessage ==
  /\ client.kind = "app.js"
  /\ DOMAIN remote = {}
  /\ LET task == newTask(TaskIdOf(1))
     IN /\ remote' = (task.id :> [task |-> task, running |-> TRUE])
        /\ client' = handleTask(client, task)
  /\ UNCHANGED <<serverVars, sdk>>

\* setTimeout(poll, 1000) fires
AppPollTimer(t) ==
  /\ client.kind = "app.js"
  /\ client.timer[t]
  /\ client' = poll(client, t)
  /\ UNCHANGED <<serverVars, remote, sdk>>

\* the awaited getTask call of poll() resolves
AppPollResponse(t) ==
  /\ client.kind = "app.js"
  /\ client.inflight[t] # << >>
  /\ client.inflight[t][1] \notin Unanswered
  /\ client' = pollResponse(client, t, client.inflight[t][1])
  /\ UNCHANGED <<serverVars, remote, sdk>>

\* client.js sendMessage: store the Task, currentTask, startTaskPolling
JsSendMessage ==
  /\ client.kind = "client.js"
  /\ Cardinality(DOMAIN remote) < MaxClientTasks
  /\ LET task == newTask(TaskIdOf(Cardinality(DOMAIN remote) + 1))
     IN /\ remote' = remote @@ (task.id :> [task |-> task, running |-> TRUE])
        /\ client' = startTaskPolling([client EXCEPT !.tasks[task.id] = task,
                                                     !.currentTask = task.id],
                                      task.id)
  /\ UNCHANGED <<serverVars, sdk>>

\* the setInterval callback up to its await, while fewer than limit calls
\* were made
JsIntervalUpTo(limit) ==
  /\ client.kind = "client.js"
  /\ client.taskPollInterval # NoTask
  /\ client.currentTask # NoTask
  /\ client.fetches < limit
  /\ Len(client.inflight[client.taskPollInterval]) < MaxInFlight
  /\ client' = [client EXCEPT !.inflight[client.taskPollInterval] = Append(@, Pending),
                              !.fetches = @ + 1]
  /\ UNCHANGED <<serverVars, remote, sdk>>

JsInterval == JsIntervalUpTo(MaxFetches)

\* an awaited agent.getTask resolves; calls in flight resolve in any order
JsPollResponse(t, k) ==
  /\ client.kind = "client.js"
  /\ k \in 1..Len(client.inflight[t])
  /\ client.inflight[t][k] \notin Unanswered
  /\ client' = intervalResponse(client, t, k, client.inflight[t][k])
  /\ UNCHANGED <<serverVars, remote, sdk>>

\* handleGetTaskRPC answers a getTask call with the Task as it is now
RemoteGetTask(t, k) ==
  /\ client.kind # "none"
  /\ k \in 1..Len(client.inflight[t])
  /\ client.inflight[t][k] = Pending
  /\ client' = [client EXCEPT !.inflight[t][k] = remote[t].task]
  /\ UNCHANGED <<serverVars, remote, sdk>>

remoteAgentMessage(task) ==
  createAgentMessage("message " \o ToString(Len(agentMessages(task.history)) + 1), NoData)

\* the executor publishes the message of a step
RemotePublish(t) ==
  /\ t \in DOMAIN remote
  /\ remote[t].running
  /\ Len(agentMessages(remote[t].task.history)) < MaxAgentMessages
  /\ remote' = [remote EXCEPT ![t].task = publish(@, remoteAgentMessage(@))]
  /\ UNCHANGED <<serverVars, client, sdk>>

\* the executor publishes its last message and calls finished()
RemoteFinished(t) ==
  /\ t \in DOMAIN remote
  /\ remote[t].running
  /\ remote' = [remote EXCEPT ![t].task = finished(publish(@, remoteAgentMessage(@))),
                              ![t].running = FALSE]
  /\ UNCHANGED <<serverVars, client, sdk>>

\* handleCancelTask, called by anyone who knows the task id
RemoteCancel(t) ==
  /\ t \in DOMAIN remote
  /\ remote[t].task.status.state # "canceled"
  /\ remote' = [remote EXCEPT ![t].task = cancelStatus(@)]
  /\ UNCHANGED <<serverVars, client, sdk>>

AppPoll == \E t \in ClientTaskIds : AppPollTimer(t) \/ AppPollResponse(t)

JsPoll == \E t \in ClientTaskIds, k \in 1..MaxInFlight : JsPollResponse(t, k)

Remote ==
  \E t \in ClientTaskIds :
    \/ \E k \in 1..MaxInFlight : RemoteGetTask(t, k)
    \/ RemotePublish(t)
    \/ RemoteFinished(t)
    \/ RemoteCancel(t)

InitClients ==
  /\ tasks = << >>
  /\ exec = << >>
  /\ calls = << >>
  /\ response = NoResponse
  /\ requestId = NoId
  /\ responseId = NoId
  /\ remote = << >>
  /\ client \in {InitClient(kind) : kind \in ClientKinds}
  /\ sdk = NoSDK
  /\ peer = NoPeer

NextClients ==
  AppSendMessage \/ AppPoll \/ JsSendMessage \/ JsInterval \/ JsPoll \/ Remote

SpecClients == InitClients /\ [][NextClients]_vars

\* the texts of the agent messages in the Task's history on the server
remoteAgentTexts(t) == texts(agentMessages(remote[t].task.history))

\* the client will fetch this Task no more: no timer, no call in flight
Quiescent(t) ==
  /\ client.inflight[t] = << >>
  /\ ~client.timer[t]
  /\ client.taskPollInterval # t

\* C18: the agent messages a client emits for a Task are the agent-role
\* subsequence of the Task's final history: none twice, none out of order,
\* and none omitted once the Task's history is final and the polls are over.
C18_ReconcilerDedup ==
  \A t \in DOMAIN remote :
    /\ IsPrefix(client.emitted[t], remoteAgentTexts(t))
    /\ (~remote[t].running /\ Quiescent(t)) => client.emitted[t] = remoteAgentTexts(t)

\* the Task the client holds for t shows a terminal state
ObservedTerminal(t) ==
  /\ client.tasks[t] # Undefined
  /\ client.tasks[t].status.state \in TerminalStates

\* C19: once a fetch shows a client a terminal state (completed, failed or
\* canceled) it never fetches that Task again, and no client fetches a Task
\* more than maxAttempts times.
C19_PollingStops ==
  [][\A t \in ClientTaskIds :
       /\ ObservedTerminal(t) => /\ Len(client'.inflight[t]) <= Len(client.inflight[t])
                                 /\ ~client'.timer[t]
       /\ client'.attempts[t] <= maxAttempts + 1
       /\ client'.fetches <= maxAttempts]_vars

(* -------------------- the SDK variant of the executor ------------------ *)
MaxSDKTasks == 2
MaxSDKSteps == 1

InitSDK == [kind |-> "sdk", activeTasks |-> {}, run |-> << >>, bus |-> << >>]

\* the ExecutionEventBus the framework hands to execute and to cancelTask:
\* the events published on it and the number of finished() calls
NoBus == [published |-> << >>, finished |-> 0]

busPublish(bus, event) == [bus EXCEPT !.published = Append(@, event)]

busFinished(bus) == [bus EXCEPT !.finished = @ + 1]

\* the catch block of execute: publish the error message, then finished()
sdkCatch(bus, errorMessage) ==
  busFinished(busPublish(bus, createAgentMessage("Error: " \o errorMessage, NoData)))

\* after the loop: the final message, then finished(); an empty step list
\* faults on steps[0].toolName and lands in the catch block
sdkAfterLoop(bus, r) ==
  IF Len(r.steps) = 0
    THEN sdkCatch(bus, ErrNoStep)
    ELSE busFinished(busPublish(bus,
           createAgentMessage(summary(r.steps), finalData(r.steps, r.results))))

\* loop body up to the await of executeTool for step k
sdkStartStep(r, k) ==
  [r EXCEPT !.pc = "tool", !.i = k,
            !.params = substitute(r.steps[k].toolParams, r.previousResult)]

\* mutation of sdkFinally: the id is left in activeTasks
sdkFinally_Keep(t) == sdk.activeTasks

\* the finally block of execute
sdkFinally(t) == sdk.activeTasks \ {t}

\* execute up to the await of selectToolWithAI; a message without a parts
\* array makes extractTextFromMessage throw before activeTasks.add
SDKExecute(userMessage) ==
  /\ sdk.kind = "sdk"
  /\ Cardinality(DOMAIN sdk.run) < MaxSDKTasks
  /\ LET t == TaskIdOf(Cardinality(DOMAIN sdk.run) + 1)
         rejected == userMessage.parts # "array"
         r == [pc |-> IF rejected THEN "rejected" ELSE "planning",
               steps |-> << >>, i |-> 0, params |-> Undefined,
               previousResult |-> Null, results |-> << >>]
     IN sdk' = [sdk EXCEPT !.activeTasks = IF rejected THEN @ ELSE @ \cup {t},
                           !.run = @ @@ (t :> r),
                           !.bus = @ @@ (t :> NoBus)]
  /\ UNCHANGED <<serverVars, remote, client>>

SDKPlannerFails(t, error) ==
  /\ sdk.kind = "sdk"
  /\ t \in DOMAIN sdk.run
  /\ sdk.run[t].pc = "planning"
  /\ sdk' = [sdk EXCEPT !.bus[t] = sdkCatch(@, error),
                        !.run[t].pc = "done",
                        !.activeTasks = sdkFinally(t)]
  /\ UNCHANGED <<serverVars, remote, client>>

SDKPlannerReturns(t, planResponse) ==
  /\ sdk.kind = "sdk"
  /\ t \in DOMAIN sdk.run
  /\ sdk.run[t].pc = "planning"
  /\ LET r == [sdk.run[t] EXCEPT !.steps = normalize(planResponse)]
     IN IF Len(r.steps) = 0
          THEN sdk' = [sdk EXCEPT !.bus[t] = sdkAfterLoop(@, r),
                                  !.run[t] = [r EXCEPT !.pc = "done"],
                                  !.activeTasks = sdkFinally(t)]
          ELSE sdk' = [sdk EXCEPT !.run[t] = sdkStartStep(r, 1)]
  /\ UNCHANGED <<serverVars, remote, client>>

SDKToolReturns(t) ==
  /\ sdk.kind = "sdk"
  /\ t \in DOMAIN sdk.run
  /\ sdk.run[t].pc = "tool"
  /\ LET r == sdk.run[t]
         step == r.steps[r.i]
         out == callTool(step.toolName, r.params, uuidv4(t, r.i))
     IN IF ~out.ok
          THEN sdk' = [sdk EXCEPT !.bus[t] = sdkCatch(@, out.error),
                                  !.run[t].pc = "done",
                                  !.activeTasks = sdkFinally(t)]
          ELSE LET r2 == [r EXCEPT !.results = Append(@, [tool |-> step.toolName,
                                                           result |-> out.result]),
                                   !.previousResult = out.result]
                   stepMessage == createAgentMessage(
                       "Step " \o ToString(r.i) \o "/" \o ToString(Len(r.steps))
                         \o ": Successfully executed " \o step.toolName,
                       [kind |-> "result", value |-> << out.result >>])
                   published == IF Len(r.steps) > 1
                                  THEN busPublish(sdk.bus[t], stepMessage)
                                  ELSE sdk.bus[t]
               IN IF r.i < Len(r.steps)
                    THEN sdk' = [sdk EXCEPT !.bus[t] = published,
                                            !.run[t] = sdkStartStep(r2, r.i + 1)]
                    ELSE sdk' = [sdk EXCEPT !.bus[t] = sdkAfterLoop(published, r2),
                                            !.run[t] = [r2 EXCEPT !.pc = "done"],
                                            !.activeTasks = sdkFinally(t)]
  /\ UNCHANGED <<serverVars, remote, client>>

\* cancelTask, called by the framework with the event bus of the Task
SDKCancelTask(t) ==
  /\ sdk.kind = "sdk"
  /\ t \in DOMAIN sdk.run
  /\ IF t \notin sdk.activeTasks
       THEN UNCHANGED sdk
       ELSE sdk' = [sdk EXCEPT
              !.activeTasks = @ \ {t},
              !.bus[t] = busFinished(busPublish(@,
                           createAgentMessage("Task has been canceled", NoData)))]
  /\ UNCHANGED <<serverVars, remote, client>>

SDKTaskIds == {TaskIdOf(n) : n \in 1..MaxSDKTasks}

SDKStart == \E userMessage \in UserMessages : SDKExecute(userMessage)

SDKPlannerFault == \E t \in SDKTaskIds, error \in PlannerFaults : SDKPlannerFails(t, error)

SDKPlannerPlan == \E t \in SDKTaskIds, p \in Plans(MaxSDKSteps) : SDKPlannerReturns(t, p)

SDKToolReturn == \E t \in SDKTaskIds : SDKToolReturns(t)

SDKCancel == \E t \in SDKTaskIds : SDKCancelTask(t)

InitSDKExecutor ==
  /\ tasks = << >>
  /\ exec = << >>
  /\ calls = << >>
  /\ response = NoResponse
  /\ requestId = NoId
  /\ responseId = NoId
  /\ remote = << >>
  /\ client = NoClient
  /\ sdk = InitSDK
  /\ peer = NoPeer

NextSDK == SDKStart \/ SDKPlannerFault \/ SDKPlannerPlan \/ SDKToolReturn \/ SDKCancel

SpecSDK == InitSDKExecutor /\ [][NextSDK]_vars

\* C20: over any execution of a Task (successful, faulting, or canceled
\* while executing) finished() is applied to the Task's event bus at most
\* once, so the status is set to completed at most once.
C20_FinishedOnce ==
  sdk.kind = "sdk" => \A t \in DOMAIN sdk.bus : sdk.bus[t].finished <= 1

\* the texts the catch block of execute can publish
ErrorTexts ==
  {"Error: " \o error : error \in PlannerFaults \cup {ErrNoStep}}
  \cup {"Error: " \o callTool(UnregisteredTool, PlainParams, "").error}

\* message is the last message of the execution of t: the final message of
\* a plan whose steps all succeeded, or the error message of the catch block
FinalMessageOf(t, message) ==
  /\ exec[t].pc = "done"
  /\ message.role = "agent"
  /\ \/ message.text \in ErrorTexts
     \/ /\ Len(exec[t].steps) > 0
        /\ Len(exec[t].results) = Len(exec[t].steps)
        /\ message = createAgentMessage(summary(exec[t].steps),
                                        finalData(exec[t].steps, exec[t].results))

\* C21: a get-task result is the Task as stored, never a partial update:
\* every snapshot in state completed already has the final agent message
\* of the execution as the last element of its history.
C21_SnapshotAtomic ==
  (response.op = "getTask" /\ response.kind = "result") =>
    /\ response.task = tasks[response.arg]
    /\ response.task.status.state = "completed" =>
         FinalMessageOf(response.arg,
                        response.task.history[Len(response.task.history)])

C21_Witness ==
  /\ response.op = "getTask"
  /\ response.kind = "result"
  /\ response.task.status.state = "completed"
  /\ Len(response.task.history) >= 2
  /\ \E t \in DOMAIN tasks : t # response.arg /\ InFlight(t)

\* the client has processed a fetch that showed Task t in this state
Observed(t, state) ==
  /\ client.kind # "none"
  /\ client.tasks[t] # Undefined
  /\ client.tasks[t].status.state = state

\* C22: a client that has observed a Task failed or canceled has emitted a
\* failure or cancellation notice for it, and emits none for a Task it has
\* only seen working or completed.
C22_TerminalNotice ==
  \A t \in ClientTaskIds :
    /\ (Observed(t, "failed") \/ Observed(t, "canceled")) => client.notices[t] # << >>
    /\ Observed(t, "completed") => client.notices[t] = << >>

\* some poll response of Task t is processed in this step
PollResponseOf(t) ==
  \/ AppPollResponse(t)
  \/ \E k \in 1..MaxInFlight : JsPollResponse(t, k)

\* C23: a fetch whose agent-message count exceeds shown emits exactly the
\* slice [shown, newCount) in order and sets shown to newCount; any other
\* fetch emits nothing and leaves shown as it is; shown never decreases.
C23_ReconcilerStep ==
  [][\A t \in ClientTaskIds :
       /\ client.kind # "none" =>
            client'.shownAgentMessages[t] >= client.shownAgentMessages[t]
       /\ PollResponseOf(t) =>
            LET shown == client.shownAgentMessages[t]
                agents == agentMessages(client'.tasks[t].history)
                newCount == Len(agents)
            IN IF newCount > shown
                 THEN /\ client'.emitted[t] =
                           client.emitted[t]
                             \o [i \in 1..(newCount - shown) |-> agents[shown + i].text]
                      /\ client'.shownAgentMessages[t] = newCount
                 ELSE /\ client'.emitted[t] = client.emitted[t]
                      /\ client'.shownAgentMessages[t] = shown]_vars

\* several polls of one Task: one of them emitted, the later ones did not
C23_Witness ==
  /\ client.kind = "app.js"
  /\ client.shownAgentMessages[TaskIdOf(1)] = 1
  /\ Len(client.emitted[TaskIdOf(1)]) = 1
  /\ client.attempts[TaskIdOf(1)] >= 3
  /\ client.timer[TaskIdOf(1)]

\* the intermediate message of step k of a plan of n steps
IsStepMessage(message, k, e) ==
  /\ message.role = "agent"
  /\ message.text = "Step " \o ToString(k) \o "/" \o ToString(Len(e.steps))
                      \o ": Successfully executed " \o e.steps[k].toolName

\* the number of intermediate messages the executor has published so far
StepMessages(e) == IF Len(e.steps) > 1 THEN Len(e.results) ELSE 0

\* the history of t is the user message, then the intermediate messages in
\* step order, then (once the executor is done) the final or error message
OrderedHistory(t) ==
  LET h == tasks[t].history
      e == exec[t]
      done == e.pc = "done"
  IN /\ Len(h) = 1 + StepMessages(e) + (IF done THEN 1 ELSE 0)
     /\ h[1].role = "user"
     /\ \A k \in 1..StepMessages(e) : IsStepMessage(h[k + 1], k, e)
     /\ done => FinalMessageOf(t, h[Len(h)])

\* C24: agent messages are appended in the order in which the executor
\* completes the steps: the message of step i precedes that of step i+1 and
\* all of them precede the final or error message; the only writer of a
\* Task's history is the one execution of that Task, one append at a time.
C24_AppendOrder ==
  [][\A t \in DOMAIN tasks' :
       /\ OrderedHistory(t)'
       /\ (t \in DOMAIN tasks /\ tasks'[t].history # tasks[t].history) =>
            /\ InFlight(t)
            /\ exec'[t] # exec[t]
            /\ \A u \in DOMAIN tasks \ {t} : tasks'[u].history = tasks[u].history]_vars

\* a three-step plan whose third step faulted, beside a second Task
C24_Witness ==
  \E t \in DOMAIN tasks :
    /\ exec[t].pc = "done"
    /\ Len(exec[t].steps) = 3
    /\ Len(exec[t].results) = 2
    /\ Len(tasks[t].history) = 4
    /\ tasks[t].history[4].text \in ErrorTexts

\* C25: cancel-task on a working Task sets its state to canceled and changes
\* nothing else: id, contextId and history are the same before and after,
\* no other Task and no executor changes, and the response is that Task.
C25_CancelFrame ==
  [][(/\ response'.op = "cancelTask"
      /\ response'.kind = "result"
      /\ Working(response'.arg)) =>
       LET t == response'.arg
       IN /\ tasks'[t].status.state = "canceled"
          /\ tasks'[t].id = tasks[t].id
          /\ tasks'[t].contextId = tasks[t].contextId
          /\ tasks'[t].history = tasks[t].history
          /\ \A u \in DOMAIN tasks \ {t} : tasks'[u] = tasks[u]
          /\ DOMAIN tasks' = DOMAIN tasks
          /\ exec' = exec
          /\ calls' = calls
          /\ response'.task = tasks'[t]]_vars

\* a Task canceled while its executor was in flight, after a step message
C25_Witness ==
  /\ response.op = "cancelTask"
  /\ response.kind = "result"
  /\ response.task.status.state = "canceled"
  /\ InFlight(response.arg)
  /\ Len(response.task.history) >= 2

\* C26: get-task is read-only: for a known or unknown id it leaves every
\* Task, the set of Tasks, every executor and the tool calls unchanged; an
\* executor is started by send-message only.
C26_GetReadOnly ==
  [][/\ response'.op = "getTask" =>
          /\ tasks' = tasks
          /\ exec' = exec
          /\ calls' = calls
     /\ DOMAIN exec' # DOMAIN exec => response'.op = "sendMessage"]_vars

\* get-task answered for a Task whose executor is in flight
C26_Witness ==
  /\ response.op = "getTask"
  /\ response.kind = "result"
  /\ Working(response.arg)
  /\ InFlight(response.arg)
  /\ Cardinality(DOMAIN tasks) = 2

\* the result of step k-1 of t offers an id the sentinel can be replaced by
Resolvable(t, k) ==
  /\ "id" \in DOMAIN exec[t].results[k - 1].result
  /\ exec[t].results[k - 1].result["id"] # ""

\* C27: a sentinel of step k > 1 is replaced by the id of step k-1's result
\* and by nothing else; a step whose sentinel cannot be resolved from step
\* k-1's result (it has no id) is not handed to its tool, and its Task ends
\* failed.
C27_AdjacentSubstitution ==
  \A t \in DOMAIN calls :
    \A k \in 2..Len(calls[t]) :
      LET toolParams == exec[t].steps[k].toolParams
          params == calls[t][k].params
      IN /\ \A key \in DOMAIN toolParams :
              (toolParams[key] = SENTINEL /\ params[key] # SENTINEL) =>
                 /\ Resolvable(t, k)
                 /\ params[key] = exec[t].results[k - 1].result["id"]
         /\ (HasSentinel(toolParams) /\ ~Resolvable(t, k)) =>
              /\ ~HasSentinel(params)
              /\ exec[t].pc = "done" => tasks[t].status.state \in {"failed", "canceled"}

\* C28: a Task in state failed carries a non-empty failure reason in its
\* status; a Task in state working, completed or canceled carries none.
C28_FailureReason ==
  \A t \in DOMAIN tasks :
    IF tasks[t].status.state = "failed"
      THEN tasks[t].status.message \notin {NoMessage, ""}
      ELSE tasks[t].status.message = NoMessage

\* a failed Task beside a Task in another state
C28_Witness ==
  \E t, u \in DOMAIN tasks :
    /\ tasks[t].status.state = "failed"
    /\ tasks[u].status.state \in {"completed", "canceled"}

\* send-message requests that supply a contextId
SendWithContext ==
  [jsonrpc : {"2.0"}, method : SendMethods,
   params : {[message |-> m, contextId |-> "ctx-A"] : m \in UserMessages},
   id : RequestIds]

\* C29: a Task is never deleted and keeps its id and contextId; get-task for
\* a created id returns the Task with that id and contextId, never an
\* error; send-message never reuses a task id, and the new Task carries
\* the contextId the caller supplied.
C29_TaskIdentity ==
  [][/\ \A t \in DOMAIN tasks :
          /\ t \in DOMAIN tasks'
          /\ tasks'[t].id = t
          /\ tasks'[t].contextId = tasks[t].contextId
     /\ (response'.op = "getTask" /\ response'.arg \in DOMAIN tasks) =>
          /\ response'.kind = "result"
          /\ response'.task.id = response'.arg
          /\ response'.task.contextId = tasks[response'.arg].contextId
     /\ (response'.op = "sendMessage" /\ response'.kind = "result") =>
          /\ response'.task.id \notin DOMAIN tasks
          /\ response'.task.id \in DOMAIN tasks'
          /\ tasks'[response'.task.id].id = response'.task.id
     /\ \A request \in SendWithContext :
          (response' # NoResponse /\ handleJSONRPC(request)) =>
             /\ response'.task.contextId = request.params.contextId
             /\ tasks'[response'.task.id].contextId = request.params.contextId]_vars

\* get-task returns the first Task, created with the caller's contextId,
\* after a second Task was created
C29_Witness ==
  /\ response.op = "getTask"
  /\ response.kind = "result"
  /\ response.arg = TaskIdOf(1)
  /\ response.task.contextId = "ctx-A"
  /\ Cardinality(DOMAIN tasks) = 2
  /\ Terminal(TaskIdOf(1))

\* the accepted aliases and the canonical method each stands for
AliasOf ==
  ("message/send" :> "sendMessage") @@ ("task/get" :> "getTask")
  @@ ("tasks/get" :> "getTask") @@ ("task/cancel" :> "cancelTask")

CanonicalMethods == {"sendMessage", "getTask", "cancelTask"}

\* the params a client may send along with a method
ParamsOf(method) ==
  IF method \in {"sendMessage", "message/send"} THEN SendParams \cup {Undefined}
  ELSE IF method \in CanonicalMethods \cup DOMAIN AliasOf THEN TaskParams \cup {Undefined}
  ELSE {Undefined}

OtherMethods == {"tasks/list", "message/stream", ""}

\* the step the router takes for one request, the client side left alone
Handles(request) == handleJSONRPC(request) /\ UNCHANGED <<remote, client, sdk, peer>>

RequestsOf(methods) ==
  UNION { [jsonrpc : {"2.0"}, method : {method}, params : ParamsOf(method),
           id : RequestIds] : method \in methods }

\* C30: a request under an alias has the result and the effect on the Task
\* store of the same request under its canonical method; a method name that
\* is neither canonical nor an alias yields -32601 and changes nothing.
C30_MethodAliases ==
  response = NoResponse =>
    /\ \A request \in RequestsOf(DOMAIN AliasOf) :
         LET canonical == [request EXCEPT !.method = AliasOf[request.method]]
         IN  /\ (ENABLED Handles(request)) = (ENABLED Handles(canonical))
             /\ ~ ENABLED (Handles(request) /\ ~ Handles(canonical))
    /\ \A request \in RequestsOf(OtherMethods) :
         /\ ENABLED Handles(request)
         /\ ~ ENABLED (/\ Handles(request)
                       /\ ~ (/\ response'.kind = "error"
                             /\ response'.code = -32601
                             /\ UNCHANGED <<tasks, exec, calls>>))

\* the router has answered -32601 while a Task is in flight
C30_Witness ==
  /\ response.op = "handleJSONRPC"
  /\ response.code = -32601
  /\ \E t \in DOMAIN tasks : InFlight(t)

\* the Tasks a step has changed
Changed == {t \in DOMAIN tasks : tasks'[t] # tasks[t]}

\* C31: a step of the executor of one Task (publish, finished, the catch
\* block) and a cancel-task for one Task change the status and history of
\* that Task only, however the executions of several Tasks interleave.
C31_TaskIsolation ==
  [][/\ Cardinality(Changed) <= 1
     /\ \A t \in DOMAIN tasks :
          (\/ ToolReturns(t)
           \/ \E error \in PlannerFaults : PlannerFails(t, error)
           \/ exec'[t] # exec[t]) => Changed \subseteq {t}
     /\ response'.op = "cancelTask" => Changed \subseteq {response'.arg}]_vars

\* the second Task has run to its end and the first was canceled while the
\* first's execution is still suspended with nothing published for it
C31_Witness ==
  /\ DOMAIN tasks = {TaskIdOf(1), TaskIdOf(2)}
  /\ tasks[TaskIdOf(2)].status.state = "completed"
  /\ Len(tasks[TaskIdOf(2)].history) = 2
  /\ InFlight(TaskIdOf(1))
  /\ tasks[TaskIdOf(1)].status.state = "canceled"
  /\ Len(tasks[TaskIdOf(1)].history) = 1

(* ------------------------------ liveness ------------------------------ *)
\* the continuation of execute for Task t after its awaited planner or tool
\* call has settled
Executes(t) ==
  /\ \/ \E error \in PlannerFaults : PlannerFails(t, error)
     \/ \E p \in Plans(MaxWork - Work) : PlannerReturns(t, p)
     \/ ToolReturns(t)
  /\ UNCHANGED <<remote, client, sdk, peer>>

\* every awaited planner and tool call settles and its continuation is run
\* by the event loop, however many requests are served in between; every
\* response is written
SpecLive ==
  /\ Init
  /\ [][Next]_vars
  /\ WF_vars(ResponseSent)
  /\ \A t \in TaskIds : SF_vars(Executes(t))

Stored(t, state) == t \in DOMAIN tasks /\ tasks[t].status.state = state

\* every Task that was created reaches a terminal state
EventuallyTerminal ==
  \A t \in TaskIds :
    (t \in DOMAIN tasks) ~> (\E state \in TerminalStates : Stored(t, state))

\* C32: when the planner and every tool call return, every created Task
\* reaches a terminal state, and from then on the stored Task, which is
\* what get-task reports, stays in that terminal state.
C32_Liveness ==
  /\ EventuallyTerminal
  /\ \A t \in TaskIds : \A state \in TerminalStates :
       [](Stored(t, state) => []Stored(t, state))

\* C33: the tools of a plan are invoked one at a time in plan order, step
\* i+1 only after step i has returned a result; n invocations are made when
\* all n steps succeed, and k when step k faults.
C33_Sequential ==
  \A t \in DOMAIN exec :
    LET e == exec[t]
        n == Len(e.steps)
        invoked == Len(calls[t])
        returned == Len(e.results)
    IN /\ invoked <= n
       /\ \A k \in 1..invoked : calls[t][k].toolName = e.steps[k].toolName
       /\ \A k \in 1..returned :
            e.results[k].tool = e.steps[k].toolName /\ e.steps[k].toolName \in RegisteredTools
       /\ e.pc \in {"planning", "rejected"} => invoked = 0
       /\ e.pc = "tool" => invoked = e.i /\ returned = e.i - 1
       /\ e.pc = "done" =>
            IF returned = n THEN invoked = n
            ELSE /\ invoked = returned + 1
                 /\ calls[t][invoked].toolName \notin RegisteredTools

\* a plan of three steps has ended at the fault of its second step
C33_Witness ==
  \E t \in DOMAIN exec :
    /\ exec[t].pc = "done"
    /\ Len(exec[t].steps) = 3
    /\ Len(calls[t]) = 2
    /\ Len(exec[t].results) = 1

SinglePlans == {[hasSteps |-> FALSE, steps |-> << >>, single |-> st] : st \in StepMenu}
EmptyPlan == [hasSteps |-> TRUE, steps |-> << >>, single |-> Undefined]

\* C34: a plan without a steps field is run as the one step {toolName,
\* toolParams}, which is invoked at once and is the only invocation; a plan
\* with an empty steps list invokes no tool and ends the execution with
\* exactly one agent message appended and the Task in a terminal state.
C34_PlanNormalization ==
  [][\A t \in DOMAIN exec :
       /\ \A p \in SinglePlans :
            PlannerReturns(t, p) =>
              /\ exec'[t].steps = << p.single >>
              /\ exec'[t].pc = "tool"
              /\ Len(calls'[t]) = 1
              /\ calls'[t][1].toolName = p.single.toolName
              /\ DOMAIN calls'[t][1].params = DOMAIN p.single.toolParams
       /\ PlannerReturns(t, EmptyPlan) =>
              /\ calls'[t] = << >>
              /\ exec'[t].pc = "done"
              /\ Len(tasks'[t].history) = Len(tasks[t].history) + 1
              /\ SubSeq(tasks'[t].history, 1, Len(tasks[t].history)) = tasks[t].history
              /\ tasks'[t].history[Len(tasks'[t].history)].role = "agent"
              /\ tasks'[t].status.state \in TerminalStates
       /\ (exec[t].pc \in {"tool", "done"} /\ Len(exec[t].steps) <= 1) =>
              /\ Len(calls'[t]) = Len(exec[t].steps)
              /\ exec[t].pc = "done" => tasks'[t].history = tasks[t].history]_vars

\* the execution of an empty plan has ended: no call, one agent message
C34_Witness ==
  \E t \in DOMAIN exec :
    /\ exec[t].pc = "done"
    /\ exec[t].steps = << >>
    /\ calls[t] = << >>
    /\ Len(tasks[t].history) = 2
    /\ tasks[t].history[2].text = "Error: " \o ErrNoStep
    /\ \E u \in DOMAIN exec : Len(exec[u].steps) = 1 /\ exec[u].pc = "done"

(* --------------------------- bounded polling --------------------------- *)
\* a getTask call throws, is answered with an error object, or is answered
\* with something that is not a Task
RemoteGetTaskFails(t, k, outcome) ==
  /\ client.kind # "none"
  /\ k \in 1..Len(client.inflight[t])
  /\ client.inflight[t][k] = Pending
  /\ client' = [client EXCEPT !.inflight[t][k] = outcome]
  /\ UNCHANGED <<serverVars, remote, sdk>>

\* the awaited getTask call of poll() has failed
AppPollFailure(t) ==
  /\ client.kind = "app.js"
  /\ client.inflight[t] # << >>
  /\ client.inflight[t][1] \in {Rejected, Invalid}
  /\ client' = pollFailure(client, t, client.inflight[t][1])
  /\ UNCHANGED <<serverVars, remote, sdk>>

\* an awaited agent.getTask of the setInterval callback has failed
JsPollFailure(t, k) ==
  /\ client.kind = "client.js"
  /\ k \in 1..Len(client.inflight[t])
  /\ client.inflight[t][k] \in {Rejected, Invalid}
  /\ client' = intervalFailure(client, t, k)
  /\ UNCHANGED <<serverVars, remote, sdk>>

FetchFailure ==
  \E t \in ClientTaskIds :
    \/ \E k \in 1..MaxInFlight, outcome \in {Rejected, Invalid} :
         RemoteGetTaskFails(t, k, outcome)
    \/ AppPollFailure(t)
    \/ \E k \in 1..MaxInFlight : JsPollFailure(t, k)

\* a client with one Task and failing fetches, polling until its own loop
\* stops
NextPolling ==
  \/ AppSendMessage
  \/ AppPoll
  \/ JsSendMessage /\ DOMAIN remote = {}
  \/ JsIntervalUpTo(maxAttempts + 1)
  \/ JsPoll
  \/ Remote
  \/ FetchFailure

SpecPolling == InitClients /\ [][NextPolling]_vars

\* a getTask call for Task t is made in this step
FetchIssued(t) == Len(client'.inflight[t]) > Len(client.inflight[t])

\* the poll loop of Task t comes round in this step
PollTick(t) ==
  \/ AppPollTimer(t)
  \/ client.taskPollInterval = t /\ JsIntervalUpTo(maxAttempts + 1)

PollFailureOf(t) ==
  \/ AppPollFailure(t)
  \/ \E k \in 1..MaxInFlight : JsPollFailure(t, k)

\* C35: a client makes at most maxAttempts getTask calls for a Task; when
\* the loop comes round after the last of them it makes no call and reports
\* a timeout; a call that fails or gives an invalid Task ends the loop.
\* The calls of a Task are counted where the client has one Task.
C35_BoundedPolling ==
  [][\A t \in ClientTaskIds :
       /\ (FetchIssued(t) /\ DOMAIN remote = {t}) => client'.fetches <= maxAttempts
       /\ (PollTick(t) /\ DOMAIN remote = {t} /\ client.fetches >= maxAttempts) =>
            /\ ~FetchIssued(t)
            /\ client'.debugLog[t] = Append(client.debugLog[t], "polling timeout")
       /\ PollFailureOf(t) =>
            /\ ~client'.timer[t]
            /\ client'.taskPollInterval # t
            /\ ~FetchIssued(t)]_vars

(* ------------------------- REST and JSON-RPC --------------------------- *)
\* the two ways to ask for the cancellation of taskId
CancelByRPC(taskId) ==
  Handles([jsonrpc |-> "2.0", method |-> "cancelTask",
           params |-> [taskId |-> taskId], id |-> "1"])

CancelByREST(taskId) ==
  /\ handleRESTCancelTask(taskId)
  /\ requestId' = NoId
  /\ responseId' = NoId
  /\ UNCHANGED <<remote, client, sdk, peer>>

StatusValues ==
  [state : TerminalStates \cup {"working"}, message : {ErrNoParts, NoMessage}]

\* the Task stores a request about taskId may leave: the store as it is, or
\* with the Task of taskId given any status, with or without its history
StoresAfter(taskId) ==
  {tasks}
  \cup {[tasks EXCEPT ![taskId] = [@ EXCEPT !.status = status]] : status \in StatusValues}
  \cup {[tasks EXCEPT ![taskId] = [@ EXCEPT !.status = status, !.history = << >>]] :
          status \in StatusValues}

\* the step left the store T and returned the Task of taskId in it
Returned(T, taskId) ==
  /\ tasks' = T
  /\ UNCHANGED <<exec, calls>>
  /\ response'.kind = "result"
  /\ response'.arg = taskId
  /\ response'.task = T[taskId]

NotFound(taskId, code) ==
  /\ UNCHANGED <<tasks, exec, calls>>
  /\ response'.kind = "error"
  /\ response'.arg = taskId
  /\ response'.code = code

\* C36: for a stored Task, whatever its state, cancel-task by JSON-RPC and
\* the REST cancel endpoint leave the same Task store and return the same
\* Task; for an unknown id both report not-found (-32000, HTTP 404) and
\* change nothing.
C36_RESTCancelEquivalent ==
  response = NoResponse =>
    /\ \A taskId \in DOMAIN tasks :
         \E T \in StoresAfter(taskId) :
           /\ ENABLED (CancelByRPC(taskId) /\ Returned(T, taskId))
           /\ ENABLED (CancelByREST(taskId) /\ Returned(T, taskId))
    /\ ENABLED (CancelByRPC(UnknownTaskId) /\ NotFound(UnknownTaskId, -32000))
    /\ ENABLED (CancelByREST(UnknownTaskId) /\ NotFound(UnknownTaskId, 404))
    /\ ~ ENABLED (CancelByRPC(UnknownTaskId) /\ ~NotFound(UnknownTaskId, -32000))
    /\ ~ ENABLED (CancelByREST(UnknownTaskId) /\ ~NotFound(UnknownTaskId, 404))

\* the REST endpoint has canceled a Task whose execution had ended, while
\* another Task is in flight
C36_Witness ==
  /\ response.op = "restCancelTask"
  /\ response.kind = "result"
  /\ response.task.status.state = "canceled"
  /\ exec[response.arg].pc = "done"
  /\ Len(response.task.history) >= 2
  /\ \E t \in DOMAIN tasks : InFlight(t)

(* ------------------------ activeTasks bookkeeping ---------------------- *)
cancelMessage == createAgentMessage("Task has been canceled", NoData)

\* execute(t) has been called and has not returned
Executing(t) == t \in DOMAIN sdk.run /\ sdk.run[t].pc \in {"planning", "tool"}

\* C39: an id enters activeTasks when its execute starts and leaves it when
\* that execute returns or cancelTask is called for it, and at no other
\* time; cancelTask for an id that is not active publishes nothing and does
\* not call finished, and for an active id it publishes the one cancellation
\* message and calls finished once.
C39_ActiveTasks ==
  [][\A t \in SDKTaskIds :
       /\ t \in sdk.activeTasks => Executing(t)
       /\ (t \notin DOMAIN sdk.run /\ t \in DOMAIN sdk'.run) =>
            (t \in sdk'.activeTasks <=> sdk'.run[t].pc = "planning")
       /\ (t \in DOMAIN sdk.run /\ t \notin sdk.activeTasks) => t \notin sdk'.activeTasks
       /\ (t \in sdk.activeTasks /\ t \notin sdk'.activeTasks) =>
            \/ sdk'.run[t].pc = "done"
            \/ SDKCancelTask(t)
       /\ (t \in sdk.activeTasks /\ sdk'.run[t].pc = "done") => t \notin sdk'.activeTasks
       /\ SDKCancelTask(t) =>
            /\ t \notin sdk'.activeTasks
            /\ sdk'.run = sdk.run
            /\ \A u \in DOMAIN sdk.bus \ {t} : sdk'.bus[u] = sdk.bus[u]
            /\ IF t \in sdk.activeTasks
                 THEN /\ sdk'.bus[t].published = Append(sdk.bus[t].published, cancelMessage)
                      /\ sdk'.bus[t].finished = sdk.bus[t].finished + 1
                 ELSE sdk'.bus[t] = sdk.bus[t]]_vars

\* a Task was canceled while its execute awaits a tool and another Task is
\* active; its bus carries the cancellation message and one finished()
C39_Witness ==
  \E t, u \in DOMAIN sdk.run :
    /\ t # u
    /\ sdk.run[t].pc = "tool"
    /\ t \notin sdk.activeTasks
    /\ sdk.bus[t].published = << cancelMessage >>
    /\ sdk.bus[t].finished = 1
    /\ u \in sdk.activeTasks

(* --------------------------- poll loop isolation ----------------------- *)
\* the poll loops of Task t that are alive: a pending setTimeout or an
\* awaited call of poll() in app.js, the interval of client.js
ActiveLoops(t) ==
  IF client.kind = "app.js"
    THEN (IF client.timer[t] THEN 1 ELSE 0) + Len(client.inflight[t])
    ELSE IF client.taskPollInterval = t THEN 1 ELSE 0

\* the client handles Task t in this step: its Task from send-message or
\* one of its poll responses
Handling(t) ==
  \/ PollResponseOf(t)
  \/ t \notin DOMAIN remote /\ t \in DOMAIN remote'

\* C38: a Task has at most one poll loop; handling one Task leaves the shown
\* counter and the emitted messages of every other Task alone; and a Task
\* that was not canceled has, once its execution and its polling are over,
\* each of its agent messages emitted exactly once, other Tasks being
\* polled in between or not.
C38_PollLoopIsolation ==
  [][\A t \in ClientTaskIds :
       /\ ActiveLoops(t)' <= 1
       /\ Handling(t) =>
            \A u \in ClientTaskIds \ {t} :
              /\ client'.shownAgentMessages[u] = client.shownAgentMessages[u]
              /\ client'.emitted[u] = client.emitted[u]
       /\ (/\ t \in DOMAIN remote'
           /\ ~remote'[t].running
           /\ remote'[t].task.status.state # "canceled"
           /\ Quiescent(t)') => client'.emitted[t] = remoteAgentTexts(t)']_vars

(* ------------------------- buyer and seller --------------------------- *)
(* startServer builds one A2ARouter per role and mounts each at its own    *)
(* path.  tasks, exec and calls are the fields of the instance whose code  *)
(* runs next; peer holds the fields of the other instance and its role.    *)
Roles == {"buyer", "seller"}

OtherRole(role) == IF role = "buyer" THEN "seller" ELSE "buyer"

\* the role whose router is at hand
ThisRole == OtherRole(peer.role)

InitRoles ==
  /\ tasks = << >>
  /\ exec = << >>
  /\ calls = << >>
  /\ response = NoResponse
  /\ requestId = NoId
  /\ responseId = NoId
  /\ remote = << >>
  /\ client = NoClient
  /\ sdk = NoSDK
  /\ peer = [role |-> "seller", tasks |-> << >>, exec |-> << >>, calls |-> << >>]

\* mutation of Route: both mount points lead to one and the same instance
Route_SharedStore ==
  /\ response = NoResponse
  /\ peer.role \in Roles
  /\ peer' = [peer EXCEPT !.role = OtherRole(@)]
  /\ UNCHANGED <<tasks, exec, calls, response, requestId, responseId, remote, client, sdk>>

\* the next request or continuation belongs to the router of the other role
Route ==
  /\ response = NoResponse
  /\ peer.role \in Roles
  /\ tasks' = peer.tasks
  /\ exec' = peer.exec
  /\ calls' = peer.calls
  /\ peer' = [role |-> OtherRole(peer.role), tasks |-> tasks, exec |-> exec,
              calls |-> calls]
  /\ UNCHANGED <<response, requestId, responseId, remote, client, sdk>>

\* the requests sent to either endpoint: any caller may name any task id
RoleRequests ==
  [jsonrpc : {"2.0"}, method : {"sendMessage"},
   params : {[message |-> m] : m \in UserMessages}, id : {"1"}]
  \cup [jsonrpc : {"2.0"}, method : {"getTask", "cancelTask"},
        params : {[taskId |-> id] : id \in TaskIds \cup {UnknownTaskId}}, id : {"1"}]

RoleJSONRPC ==
  /\ response = NoResponse
  /\ \E request \in RoleRequests :
       /\ "taskId" \in DOMAIN request.params =>
            request.params.taskId \in DOMAIN tasks \cup DOMAIN peer.tasks \cup {UnknownTaskId}
       /\ handleJSONRPC(request)
  /\ UNCHANGED <<remote, client, sdk, peer>>

NextRoles ==
  RoleJSONRPC \/ Route \/ ResponseSent \/ PlannerFault \/ PlannerPlan \/ ToolReturn

SpecRoles == InitRoles /\ [][NextRoles]_vars

\* C37: the Tasks of one role's router are never those of the other's; a
\* step at one endpoint leaves the other role's router as it is; get-task
\* and cancel-task naming a Task of the other role answer -32000 and change
\* nothing.
C37_SeparateStores ==
  [][/\ DOMAIN tasks' \cap DOMAIN peer'.tasks = {}
     /\ peer'.role = peer.role => peer' = peer
     /\ peer'.role # peer.role =>
          /\ DOMAIN tasks' \cap DOMAIN tasks = {}
          /\ tasks' = peer.tasks
          /\ peer'.tasks = tasks
     /\ (/\ response' # NoResponse
         /\ response'.op \in {"getTask", "cancelTask"}
         /\ response'.arg \in DOMAIN peer.tasks) =>
          /\ response'.kind = "error"
          /\ response'.code = -32000
          /\ UNCHANGED <<tasks, exec, calls, peer>>]_vars

\* the seller endpoint has answered -32000 to a cancel-task for a working
\* Task of the buyer, the seller having a Task of its own
C37_Witness ==
  /\ ThisRole = "seller"
  /\ response.op = "cancelTask"
  /\ response.code = -32000
  /\ response.arg \in DOMAIN peer.tasks
  /\ peer.tasks[response.arg].status.state = "working"
  /\ peer.exec[response.arg].pc = "tool"
  /\ DOMAIN tasks # {}

====
